---- MODULE Spec2Model ----
(***************************************************************************)
(* Depth increasing pooling (YOLOv2 extension of CNTK) and the pairwise    *)
(* swap axis permuter it relies on.                                        *)
(*                                                                         *)
(* A tensor is a record [shape, data]: shape is the sequence of dimension  *)
(* sizes, data the elements in row-major (last axis fastest) order.  Axis  *)
(* numbers, loop counters and permutation entries are 0-based as in the    *)
(* Python source; TLA+ sequences are 1-based, so At(s, k) reads s[k+1].    *)
(***************************************************************************)
EXTENDS Integers, Sequences, FiniteSets, TLC

VARIABLES
    \* ---- transposeAlotNp(model, permutation) -------------------------
    model,                \* the working tensor
    permutation,          \* the requested axis order
    current_permutation,  \* axis order of model relative to the input
    i,                    \* outer loop counter
    j,                    \* inner loop counter
    pc,                   \* position in transposeAlotNp
    found,                \* the inner loop ended by its break
    swaps,                \* number of np.swapaxes calls so far
    input,                \* the tensor the current call was entered with
    call,                 \* 1: first call, 2: call with the inverse permutation
    first_input,          \* the tensor of the first call
    \* ---- the pooling functions ----------------------------------------
    tensor,               \* argument of depth_increasing_pooling / volume
    pooling_window_shape, \* (w_reduce, h_reduce)
    input_shape_arg,      \* the input_shape argument: None or a shape
    input_shape,          \* the effective input_shape (line 19)
    shape_tmp,
    final_shape,
    temp,                 \* temp1 / temp2 / temp3
    ppc,                  \* position in depth_increasing_pooling
    raised,               \* the error depth_increasing_pooling raised
    reshapes,             \* number of reshape calls attempted
    transposes,           \* number of transpose_a_lot calls attempted
    np_transposed_version,     \* dip_np(data, window)
    np_repeated_swap_version   \* dip_swap_np(data, window)

permVars == <<model, permutation, current_permutation, i, j, pc, found, swaps,
              input, call, first_input>>
poolVars == <<tensor, pooling_window_shape, input_shape_arg, input_shape,
              shape_tmp, final_shape, temp, ppc, raised, reshapes, transposes,
              np_transposed_version, np_repeated_swap_version>>
vars == <<permVars, poolVars>>

None == "None"

(***************************************************************************)
(* Bounds of the model.                                                    *)
(***************************************************************************)
MaxDim == 3        \* largest size of the distinguished axis of a permuter input
MaxBadRank == 3    \* largest rank for which invalid permutations are fed
MaxC == 2          \* pooling inputs: channels 1..MaxC
MaxW == 4          \* pooling inputs: width and height 1..MaxW
MaxWin == 3        \* pooling windows: ww, wh in 1..MaxWin

(***************************************************************************)
(* Row-major tensors.                                                      *)
(***************************************************************************)
At(s, k) == s[k + 1]

RECURSIVE ProdFrom(_, _)
ProdFrom(s, p) == IF p > Len(s) THEN 1 ELSE s[p] * ProdFrom(s, p + 1)

\* number of elements of a tensor of shape s
Prod(s) == ProdFrom(s, 1)

\* row-major stride of the p-th (1-based) axis
Stride(s, p) == ProdFrom(s, p + 1)

\* multi-index (0-based entries) of the flat 0-based offset k
Unravel(k, s) == [p \in 1..Len(s) |-> (k \div Stride(s, p)) % s[p]]

RECURSIVE RavelFrom(_, _, _)
RavelFrom(idx, s, p) ==
    IF p > Len(s) THEN 0 ELSE idx[p] * Stride(s, p) + RavelFrom(idx, s, p + 1)

\* flat 0-based offset of a multi-index
Ravel(idx, s) == RavelFrom(idx, s, 1)

\* element of tensor t at the multi-index idx
Elem(t, idx) == t.data[Ravel(idx, t.shape) + 1]

SwapSeq(s, a, b) ==
    [p \in 1..Len(s) |-> IF p = a + 1 THEN s[b + 1]
                         ELSE IF p = b + 1 THEN s[a + 1] ELSE s[p]]

IsTensor(t) == Len(t.data) = Prod(t.shape)

\* np.arange(n)
arange(n) == [p \in 1..n |-> p - 1]

\* a valid permutation of 0..n-1
ValidPerm(perm) ==
    \A v \in 0..(Len(perm) - 1) : \E p \in 1..Len(perm) : perm[p] = v

\* the position (0-based) at which the valid permutation perm holds v
PosOf(perm, v) == (CHOOSE p \in 1..Len(perm) : perm[p] = v) - 1

Inverse(perm) == [p \in 1..Len(perm) |-> PosOf(perm, p - 1)]

(***************************************************************************)
(* The tensor primitives the source calls.                                 *)
(***************************************************************************)
\* row-major strides of a shape
Strides(s) == [p \in 1..Len(s) |-> Stride(s, p)]

\* offset, in a source tensor whose stride for output axis p is src[p], of
\* the element at flat offset k of an output of shape s2 (strides st2)
RECURSIVE SourceOffset(_, _, _, _, _)
SourceOffset(k, s2, st2, src, p) ==
    IF p > Len(s2) THEN 0
    ELSE ((k \div st2[p]) % s2[p]) * src[p] + SourceOffset(k, s2, st2, src, p + 1)

\* the row-major tensor of shape s2 whose axis p is axis from[p] of t
Gather(t, s2, from) ==
    LET st  == Strides(t.shape)
        st2 == Strides(s2)
        src == [p \in 1..Len(s2) |-> At(st, from[p])]
    IN  [shape |-> s2,
         data  |-> [k \in 1..Prod(s2) |->
                      t.data[SourceOffset(k - 1, s2, st2, src, 1) + 1]]]

\* np.ascontiguousarray(np.swapaxes(t, a, b)): axes a and b exchanged and the
\* result laid out row-major again
swapaxes(t, a, b) ==
    Gather(t, SwapSeq(t.shape, a, b), SwapSeq(arange(Len(t.shape)), a, b))

\* np.ascontiguousarray(np.transpose(t, axes)): output axis p is input axis
\* axes[p]
np_transpose(t, axes) ==
    Gather(t, [p \in 1..Len(axes) |-> At(t.shape, axes[p])], axes)

(***************************************************************************)
(* transposeAlotNp(model, permutation), lines 141-161.                     *)
(***************************************************************************)
\* range(nr_of_axes - 1): the outer loop visits positions 0..nr_of_axes-2
OuterEndOffByOne(n) == n - 2
OuterEndVisitsLast(n) == n
OuterEnd(n) == n - 1

\* line 147: does this position need to be changed?
NeedsChangeAlways(perm, cur, ii) == TRUE
NeedsChange(perm, cur, ii) == At(perm, ii) # At(cur, ii)

\* line 150: the inner loop's break condition
ScanHitSelf(perm, cur, ii, jj) == At(perm, jj) = At(perm, ii)
ScanHit(perm, cur, ii, jj) == At(cur, jj) = At(perm, ii)

\* lines 156-158: exchange two entries of current_permutation through tmp
swap_current_no_tmp(cur, a, b) ==
    [p \in 1..Len(cur) |-> IF p = a + 1 THEN cur[b + 1] ELSE cur[p]]
swap_current(cur, a, b) == SwapSeq(cur, a, b)

\* lines 149-151: the value of j after the inner loop, entered at jj: the
\* first position from jj on that holds permutation[i], or the last position
\* nr_of_axes-1 when the loop runs to its end without a break
RECURSIVE FindJ(_, _, _, _)
FindJ(perm, cur, ii, jj) ==
    IF ScanHit(perm, cur, ii, jj) \/ jj = Len(perm) - 1
    THEN jj
    ELSE FindJ(perm, cur, ii, jj + 1)

\* lines 145-159 from outer position ii on
RECURSIVE SwapLoop(_, _, _, _)
SwapLoop(t, perm, cur, ii) ==
    IF ii >= OuterEnd(Len(perm)) THEN t
    ELSE IF ~NeedsChange(perm, cur, ii) THEN SwapLoop(t, perm, cur, ii + 1)
    ELSE LET jj == FindJ(perm, cur, ii, ii)
         IN  SwapLoop(swapaxes(t, ii, jj), perm, swap_current(cur, ii, jj),
                      ii + 1)

transposeAlotNp(t, perm) == SwapLoop(t, perm, arange(Len(perm)), 0)

(***************************************************************************)
(* transposeAlotNp step by step.                                           *)
(***************************************************************************)
\* the permutation depth_increasing_pooling, dip_np and dip_swap_np pass
PoolPermWindowAxesSwapped == <<0, 4, 2, 1, 3>>
PoolPerm == <<0, 2, 4, 1, 3>>

\* the permuter is exercised up to the rank the pooling functions use
MaxRank == Len(PoolPerm)

\* input tensors: every axis of size 2 but one distinguished axis of size
\* 1..MaxDim, elements pairwise distinct
Shapes(n) == { [p \in 1..n |-> IF p = a THEN d ELSE 2] : a \in 1..n, d \in 1..MaxDim }

Iota(s) == [shape |-> s, data |-> [k \in 1..Prod(s) |-> k - 1]]

Perms(n) == { q \in [1..n -> 0..(n - 1)] : ValidPerm(q) }

\* sequences of length n that are no permutation: a repeated value, or the
\* out-of-range value n
BadPerms(n) == { q \in [1..n -> 0..n] : ~ValidPerm(q) }

nr_of_axes == Len(permutation)

EmptyTensor == [shape |-> <<>>, data |-> <<>>]

\* outcome of a call that has not been made yet
Pending == [err |-> "pending", shape |-> <<>>, data |-> <<>>]

\* the pooling functions are not running
PoolIdle ==
    /\ tensor = EmptyTensor
    /\ pooling_window_shape = <<>>
    /\ input_shape_arg = [given |-> FALSE, shape |-> <<>>]
    /\ input_shape = <<>>
    /\ shape_tmp = <<>>
    /\ final_shape = <<>>
    /\ temp = EmptyTensor
    /\ ppc = "idle"
    /\ raised = None
    /\ reshapes = 0
    /\ transposes = 0
    /\ np_transposed_version = Pending
    /\ np_repeated_swap_version = Pending

\* transposeAlotNp is not running
PermIdle ==
    /\ model = EmptyTensor
    /\ input = EmptyTensor
    /\ first_input = EmptyTensor
    /\ permutation = <<>>
    /\ current_permutation = <<>>
    /\ i = 0
    /\ j = 0
    /\ found = FALSE
    /\ swaps = 0
    /\ call = 0
    /\ pc = "idle"

\* lines 141-143: entry of transposeAlotNp(t, perm)
Enter(t, perm) ==
    /\ model' = t
    /\ input' = t
    /\ permutation' = perm
    /\ current_permutation' = arange(Len(perm))
    /\ i' = 0
    /\ j' = 0
    /\ found' = FALSE
    /\ swaps' = 0
    /\ pc' = "for_i"

InitPerm ==
    /\ \E n \in 1..MaxRank : \E s \in Shapes(n) :
         /\ model = Iota(s)
         /\ \/ permutation \in Perms(n)
            \/ n <= MaxBadRank /\ permutation \in BadPerms(n)
    /\ input = model
    /\ first_input = model
    /\ call = 1
    /\ current_permutation = arange(Len(permutation))
    /\ i = 0
    /\ j = 0
    /\ found = FALSE
    /\ swaps = 0
    /\ pc = "for_i"
    /\ PoolIdle

\* line 145: for i in range(nr_of_axes - 1)
LoopHead ==
    /\ pc = "for_i"
    /\ pc' = IF i < OuterEnd(nr_of_axes) THEN "if" ELSE "done"
    /\ UNCHANGED <<model, permutation, current_permutation, i, j, found, swaps,
                   input, call, first_input>>
    /\ UNCHANGED poolVars

\* line 147: if permutation[i] != current_permutation[i]
TestPosition ==
    /\ pc = "if"
    /\ IF NeedsChange(permutation, current_permutation, i)
       THEN /\ pc' = "scan"
            /\ j' = i
            /\ i' = i
       ELSE /\ pc' = "for_i"
            /\ j' = j
            /\ i' = i + 1
    /\ found' = FALSE
    /\ UNCHANGED <<model, permutation, current_permutation, swaps, input, call,
                   first_input>>
    /\ UNCHANGED poolVars

\* lines 149-151: one iteration of for j in range(i, nr_of_axes)
Scan ==
    /\ pc = "scan"
    /\ IF ScanHit(permutation, current_permutation, i, j)
       THEN /\ found' = TRUE
            /\ pc' = "swap"
            /\ j' = j
       ELSE IF j = nr_of_axes - 1
       THEN /\ found' = FALSE
            /\ pc' = "swap"
            /\ j' = j
       ELSE /\ found' = FALSE
            /\ pc' = "scan"
            /\ j' = j + 1
    /\ UNCHANGED <<model, permutation, current_permutation, i, swaps, input,
                   call, first_input>>
    /\ UNCHANGED poolVars

\* lines 154-158: swap the two axes, and the two entries of current_permutation
SwapAxes ==
    /\ pc = "swap"
    /\ model' = swapaxes(model, i, j)
    /\ current_permutation' = swap_current(current_permutation, i, j)
    /\ swaps' = swaps + 1
    /\ i' = i + 1
    /\ pc' = "for_i"
    /\ UNCHANGED <<permutation, j, found, input, call, first_input>>
    /\ UNCHANGED poolVars

\* the returned tensor is passed to transposeAlotNp again, with the inverse
\* of the permutation
CallInverse ==
    /\ pc = "done"
    /\ call = 1
    /\ ValidPerm(permutation)
    /\ Enter(model, Inverse(permutation))
    /\ call' = 2
    /\ UNCHANGED first_input
    /\ UNCHANGED poolVars

NextPerm == LoopHead \/ TestPosition \/ Scan \/ SwapAxes \/ CallInverse

(***************************************************************************)
(* The pooling functions.                                                  *)
(***************************************************************************)
\* lines 26-30 (and 51-55, 165-169): int(a / b) truncates the quotient
shape_tmp_rounding_up(s, w) ==
    <<s[1], (s[2] + w[1] - 1) \div w[1], w[1], (s[3] + w[2] - 1) \div w[2], w[2]>>
shape_tmp_of(s, w) ==
    <<s[1], s[2] \div w[1], w[1], s[3] \div w[2], w[2]>>

\* lines 31-33: the quotients are not truncated here; an entry is the
\* fraction <<numerator, denominator>>
final_shape_windows_swapped(s, w) ==
    << <<s[1] * w[1] * w[2], 1>>, <<s[2], w[2]>>, <<s[3], w[1]>> >>
final_shape_of(s, w) ==
    << <<s[1] * w[1] * w[2], 1>>, <<s[2], w[1]>>, <<s[3], w[2]>> >>

\* lines 56-58 (and 170-172): dip_np and dip_swap_np truncate these too
final_shape_int(s, w) ==
    <<s[1] * w[1] * w[2], s[2] \div w[1], s[3] \div w[2]>>

\* the dimensions a shape of fractions denotes when all of them are whole
Whole(fs) == \A p \in 1..Len(fs) : fs[p][1] % fs[p][2] = 0
AsDims(fs) == [p \in 1..Len(fs) |-> fs[p][1] \div fs[p][2]]

\* reshape is accepted only when the element count is kept
CanReshape(t, s) == Prod(s) = Len(t.data)

\* reshape(t, s) / t.shape = s: same row-major data under the new shape
reshape(t, s) == [shape |-> s, data |-> t.data]

\* extensions.Transpose.transpose_a_lot: the swap-only axis permuter
transpose_a_lot(t, perm) == transposeAlotNp(t, perm)

Ok(t) == [err |-> None, shape |-> t.shape, data |-> t.data]
Err(e) == [err |-> e, shape |-> <<>>, data |-> <<>>]

\* lines 50-63: dip_np(volume, pooling_window_shape)
dip_np(volume, w) ==
    IF Len(volume.shape) < 3 THEN Err("IndexError")
    ELSE LET st == shape_tmp_of(volume.shape, w)
             fs == final_shape_int(volume.shape, w)
         IN  IF ~CanReshape(volume, st) THEN Err("ValueError")
             ELSE LET t == np_transpose(reshape(volume, st), PoolPerm)
                  IN  IF ~CanReshape(t, fs) THEN Err("ValueError")
                      ELSE Ok(reshape(t, fs))

\* lines 164-177: dip_swap_np(volume, pooling_window_shape)
dip_swap_np(volume, w) ==
    IF Len(volume.shape) < 3 THEN Err("IndexError")
    ELSE LET st == shape_tmp_of(volume.shape, w)
             fs == final_shape_int(volume.shape, w)
         IN  IF ~CanReshape(volume, st) THEN Err("ValueError")
             ELSE LET t == transposeAlotNp(reshape(volume, st), PoolPerm)
                  IN  IF ~CanReshape(t, fs) THEN Err("ValueError")
                      ELSE Ok(reshape(t, fs))

\* the element at (c, x, y, ...) reads as the decimal digits c x y ..., as in
\* the test data of lines 65-75
RECURSIVE Digits(_, _)
Digits(idx, p) == IF p = 0 THEN 0 ELSE 10 * Digits(idx, p - 1) + idx[p]

Pattern(s) ==
    [shape |-> s,
     data  |-> [k \in 1..Prod(s) |-> Digits(Unravel(k - 1, s), Len(s))]]

PoolShapes3 == { <<c, w, h>> : c \in 1..MaxC, w \in 1..MaxW, h \in 1..MaxW }
PoolShapes ==
    PoolShapes3 \cup { SubSeq(s, 2, 3) : s \in PoolShapes3 }
                \cup { s \o <<1>> : s \in PoolShapes3 }
Windows == { <<ww, wh>> : ww \in 1..MaxWin, wh \in 1..MaxWin }

InitPool ==
    /\ \E s \in PoolShapes :
         /\ tensor = Pattern(s)
         /\ input_shape_arg \in { [given |-> FALSE, shape |-> <<>>],
                                  [given |-> TRUE, shape |-> s] }
    /\ pooling_window_shape \in Windows
    /\ input_shape = <<>>
    /\ shape_tmp = <<>>
    /\ final_shape = <<>>
    /\ temp = EmptyTensor
    /\ ppc = "call_dip_np"
    /\ raised = None
    /\ reshapes = 0
    /\ transposes = 0
    /\ np_transposed_version = Pending
    /\ np_repeated_swap_version = Pending
    /\ PermIdle

\* line 221 (and 102): np_transposed_version = dip_np(np.copy(data), window)
CallDipNp ==
    /\ ppc = "call_dip_np"
    /\ np_transposed_version' = dip_np(tensor, pooling_window_shape)
    /\ ppc' = "call_dip_swap_np"
    /\ UNCHANGED <<tensor, pooling_window_shape, input_shape_arg, input_shape,
                   shape_tmp, final_shape, temp, raised, reshapes, transposes,
                   np_repeated_swap_version>>
    /\ UNCHANGED permVars

\* line 226: np_repeated_swap_version = dip_swap_np(np.copy(data), window)
CallDipSwapNp ==
    /\ ppc = "call_dip_swap_np"
    /\ np_repeated_swap_version' = dip_swap_np(tensor, pooling_window_shape)
    /\ ppc' = "call_dip"
    /\ UNCHANGED <<tensor, pooling_window_shape, input_shape_arg, input_shape,
                   shape_tmp, final_shape, temp, raised, reshapes, transposes,
                   np_transposed_version>>
    /\ UNCHANGED permVars

\* line 19: if input_shape is None: input_shape = tensor.shape
EnterDip ==
    /\ ppc = "call_dip"
    /\ input_shape' = IF input_shape_arg.given THEN input_shape_arg.shape
                      ELSE tensor.shape
    /\ ppc' = "assert"
    /\ UNCHANGED <<tensor, pooling_window_shape, input_shape_arg, shape_tmp,
                   final_shape, temp, raised, reshapes, transposes,
                   np_transposed_version, np_repeated_swap_version>>
    /\ UNCHANGED permVars

\* line 23: assert len(input_shape) == 3
AxesOkAtLeast3(s) == Len(s) >= 3
AxesOk(s) == Len(s) = 3

AssertAxes ==
    /\ ppc = "assert"
    /\ IF AxesOk(input_shape)
       THEN ppc' = "shapes" /\ raised' = raised
       ELSE ppc' = "raised" /\ raised' = "AssertionError"
    /\ UNCHANGED <<tensor, pooling_window_shape, input_shape_arg, input_shape,
                   shape_tmp, final_shape, temp, reshapes, transposes,
                   np_transposed_version, np_repeated_swap_version>>
    /\ UNCHANGED permVars

\* lines 26-33
ComputeShapes ==
    /\ ppc = "shapes"
    /\ shape_tmp' = shape_tmp_of(input_shape, pooling_window_shape)
    /\ final_shape' = final_shape_of(input_shape, pooling_window_shape)
    /\ ppc' = "reshape1"
    /\ UNCHANGED <<tensor, pooling_window_shape, input_shape_arg, input_shape,
                   temp, raised, reshapes, transposes,
                   np_transposed_version, np_repeated_swap_version>>
    /\ UNCHANGED permVars

\* line 35: temp1 = reshape(tensor, shape_tmp)
Reshape1 ==
    /\ ppc = "reshape1"
    /\ reshapes' = reshapes + 1
    /\ IF CanReshape(tensor, shape_tmp)
       THEN /\ temp' = reshape(tensor, shape_tmp)
            /\ ppc' = "transpose"
            /\ raised' = raised
       ELSE /\ temp' = temp
            /\ ppc' = "raised"
            /\ raised' = "ReshapeError"
    /\ UNCHANGED <<tensor, pooling_window_shape, input_shape_arg, input_shape,
                   shape_tmp, final_shape, transposes,
                   np_transposed_version, np_repeated_swap_version>>
    /\ UNCHANGED permVars

\* line 37: temp2 = transpose_a_lot(temp1, (0, 2, 4, 1, 3))
Transpose ==
    /\ ppc = "transpose"
    /\ transposes' = transposes + 1
    /\ temp' = transpose_a_lot(temp, PoolPerm)
    /\ ppc' = "reshape2"
    /\ UNCHANGED <<tensor, pooling_window_shape, input_shape_arg, input_shape,
                   shape_tmp, final_shape, raised, reshapes,
                   np_transposed_version, np_repeated_swap_version>>
    /\ UNCHANGED permVars

\* lines 39-41: temp3 = reshape(temp2, final_shape); return temp3
Reshape2 ==
    /\ ppc = "reshape2"
    /\ reshapes' = reshapes + 1
    /\ IF Whole(final_shape) /\ CanReshape(temp, AsDims(final_shape))
       THEN /\ temp' = reshape(temp, AsDims(final_shape))
            /\ ppc' = "return"
            /\ raised' = raised
       ELSE /\ temp' = temp
            /\ ppc' = "raised"
            /\ raised' = "ReshapeError"
    /\ UNCHANGED <<tensor, pooling_window_shape, input_shape_arg, input_shape,
                   shape_tmp, final_shape, transposes,
                   np_transposed_version, np_repeated_swap_version>>
    /\ UNCHANGED permVars

NextPool ==
    \/ CallDipNp \/ CallDipSwapNp \/ EnterDip \/ AssertAxes \/ ComputeShapes
    \/ Reshape1 \/ Transpose \/ Reshape2

Init == InitPerm \/ InitPool

Next == NextPerm \/ NextPool

Spec == Init /\ [][Next]_vars

(***************************************************************************)
(* Properties.                                                             *)
(***************************************************************************)
PermRunning == pc # "idle"
PoolRunning == ppc # "idle"

C_ == tensor.shape[1]
W_ == tensor.shape[2]
H_ == tensor.shape[3]
ww == pooling_window_shape[1]
wh == pooling_window_shape[2]

Rank3 == Len(tensor.shape) = 3
Divisible == Rank3 /\ W_ % ww = 0 /\ H_ % wh = 0
NonDivisible == Rank3 /\ (W_ % ww # 0 \/ H_ % wh # 0)

\* out[c*ww*wh + r*wh + col][gx][gy] = inp[c][gx*ww + r][gy*wh + col]
IndexLaw(out, inp) ==
    \A c \in 0..(C_ - 1), r \in 0..(ww - 1), col \in 0..(wh - 1),
       gx \in 0..((W_ \div ww) - 1), gy \in 0..((H_ \div wh) - 1) :
        Elem(out, <<c * ww * wh + r * wh + col, gx, gy>>)
            = Elem(inp, <<c, gx * ww + r, gy * wh + col>>)

\* the test of lines 65-108
TestShape == <<2, 4, 4>>
TestWindow == <<2, 2>>
Expected ==
    <<0, 2, 20, 22,     1, 3, 21, 23,     10, 12, 30, 32,     11, 13, 31, 33,
      100, 102, 120, 122,   101, 103, 121, 123,
      110, 112, 130, 132,   111, 113, 131, 133>>

\* C1: for a 3-axis input (C, W, H) and a window (ww, wh) dividing W and H,
\* depth_increasing_pooling returns (it raises nothing) a tensor whose element
\* at (c*ww*wh + r*wh + col, gx, gy) is the input's element at
\* (c, gx*ww + r, gy*wh + col); on the test's data and window it returns the
\* test's expected tensor, and so does dip_np.
C1_IndexMapping ==
    /\ ppc = "return" => Divisible /\ IndexLaw(temp, tensor)
    /\ PoolRunning /\ Divisible => raised = None
    /\ ppc = "return" /\ tensor.shape = TestShape /\ pooling_window_shape = TestWindow
         => /\ temp = [shape |-> <<8, 2, 2>>, data |-> Expected]
            /\ np_transposed_version = Ok(temp)

C1_Witness ==
    /\ ppc = "return"
    /\ tensor.shape = TestShape
    /\ pooling_window_shape = TestWindow
    /\ temp.data = Expected
    /\ Elem(temp, <<3, 1, 0>>) = Elem(tensor, <<0, 3, 1>>)

\* C2: for an input shape (C, W, H) and a window (ww, wh) dividing W and H,
\* non-square windows included, the output shape is (C*ww*wh, W/ww, H/wh),
\* and the input shape, the 5-axis shape and the output shape have the same
\* number of elements.
C2_ShapeLaw ==
    /\ PoolRunning /\ Divisible => raised = None
    /\ ppc \in {"transpose", "reshape2", "return"}
         => /\ shape_tmp = <<C_, W_ \div ww, ww, H_ \div wh, wh>>
            /\ Prod(shape_tmp) = Prod(tensor.shape)
            /\ Prod(temp.shape) = Prod(tensor.shape)
            /\ IsTensor(temp)
    /\ ppc = "return"
         => /\ temp.shape = <<C_ * ww * wh, W_ \div ww, H_ \div wh>>
            /\ (W_ \div ww) * ww = W_
            /\ (H_ \div wh) * wh = H_

C2_Witness ==
    /\ ppc = "return"
    /\ pooling_window_shape = <<1, 2>>
    /\ tensor.shape = <<2, 4, 4>>
    /\ temp.shape = <<4, 4, 2>>

\* both dip_np and dip_swap_np have been called
DipsCalled == ppc \notin {"idle", "call_dip_np", "call_dip_swap_np"}

\* C3: for a valid permutation, transposeAlotNp returns the tensor whose axis
\* p is input axis permutation[p] (shape and elements), the tensor a direct
\* transpose by the permutation gives; and dip_swap_np gives what dip_np gives.
C3_SwapsEqualTranspose ==
    /\ pc = "done" /\ ValidPerm(permutation)
         => /\ \A p \in 1..nr_of_axes :
                  model.shape[p] = At(input.shape, permutation[p])
            /\ model = np_transpose(input, permutation)
            /\ model = transposeAlotNp(input, permutation)
    /\ DipsCalled => np_repeated_swap_version = np_transposed_version

C3_Witness ==
    /\ pc = "done"
    /\ call = 1
    /\ permutation = PoolPerm
    /\ input.shape = <<2, 2, 3, 2, 2>>
    /\ model.shape = <<2, 3, 2, 2, 2>>
    /\ model # input
    /\ swaps = 3

\* C4: transposeAlotNp with a valid permutation, then transposeAlotNp of the
\* result with the inverse permutation, gives back the original tensor.
C4_InverseRoundTrip ==
    pc = "done" /\ call = 2 => model = first_input

C4_Witness ==
    /\ pc = "done"
    /\ call = 2
    /\ permutation = Inverse(PoolPerm)
    /\ permutation = <<0, 3, 1, 4, 2>>
    /\ input # first_input
    /\ model = first_input
    /\ first_input.shape = <<2, 3, 2, 2, 2>>

AfterAssert == ppc \in {"shapes", "reshape1", "transpose", "reshape2", "return", "raised"}

\* C5: when the effective input_shape has not exactly 3 entries,
\* depth_increasing_pooling fails at its assertion, before any reshape or
\* axis permutation; when it has 3 entries the assertion does not fail.
C5_ShapeErrorFirst ==
    /\ AfterAssert => (Len(input_shape) # 3 <=> raised = "AssertionError")
    /\ AfterAssert /\ Len(input_shape) # 3
         => ppc = "raised" /\ reshapes = 0 /\ transposes = 0 /\ temp = EmptyTensor

C5_Witness ==
    /\ ppc = "raised"
    /\ raised = "AssertionError"
    /\ Len(input_shape) = 4
    /\ input_shape_arg.given
    /\ reshapes = 0

\* C6: given a sequence that is no valid permutation, transposeAlotNp fails
\* instead of returning a tensor, and never swaps axes for a value it did not
\* find.
C6_InvalidPermutationRejected ==
    PermRunning /\ ~ValidPerm(permutation)
        => /\ pc # "done"
           /\ (pc = "swap" => found)

Variant ==
    (nr_of_axes - i) * (nr_of_axes + 4)
      + CASE pc = "for_i" -> nr_of_axes + 3
          [] pc = "if"    -> nr_of_axes + 2
          [] pc = "scan"  -> nr_of_axes + 1 - j
          [] pc = "swap"  -> 1
          [] OTHER        -> 0

SwapsBounded ==
    PermRunning /\ ValidPerm(permutation)
        => /\ swaps <= i
           /\ swaps <= IF nr_of_axes = 1 THEN 0 ELSE nr_of_axes - 1
           /\ pc \in {"if", "scan", "swap"} => i <= nr_of_axes - 2
           /\ pc = "done" => i = IF nr_of_axes = 1 THEN 0 ELSE nr_of_axes - 1
           /\ permutation = PoolPerm => swaps <= 4
           /\ Variant >= 0

\* C8: for a valid permutation of 0..n-1, transposeAlotNp makes at most one
\* swap per position 0..n-2 and none for the last position, at most n-1 in
\* all (none for n = 1), at most 4 for the pooling permutation; and it
\* terminates: every step before the return decreases Variant, which is
\* never negative.
C8_SwapBound ==
    /\ []SwapsBounded
    /\ [][PermRunning /\ pc # "done" /\ ValidPerm(permutation)
             => Variant' < Variant]_vars

C8_Witness ==
    /\ pc = "done"
    /\ nr_of_axes = 5
    /\ ValidPerm(permutation)
    /\ swaps = 4

\* C9: with the identity permutation transposeAlotNp makes no swap and
\* returns a tensor equal to its input; for n = 1 the loop body is never
\* entered.
C9_IdentityNoOp ==
    PermRunning /\ permutation = arange(nr_of_axes)
        => /\ swaps = 0
           /\ pc \notin {"scan", "swap"}
           /\ model = input
           /\ nr_of_axes = 1 => pc \in {"for_i", "done"}

C9_Witness ==
    /\ pc = "done"
    /\ call = 1
    /\ permutation = <<0, 1, 2, 3, 4>>
    /\ model = input
    /\ model.shape = <<2, 2, 3, 2, 2>>
    /\ swaps = 0

\* C10: loop invariant of transposeAlotNp for a valid permutation:
\* current_permutation is a permutation and is the axis order of the working
\* tensor relative to the input; the positions before i already hold their
\* final axes; the inner scan is entered only at a position that needs a
\* change and ends by its break at a j with i < j <= n-1; on return
\* current_permutation is the permutation, last position included.
C10_LoopInvariant ==
    PermRunning /\ ValidPerm(permutation)
        => /\ ValidPerm(current_permutation)
           /\ Len(current_permutation) = nr_of_axes
           /\ model = np_transpose(input, current_permutation)
           /\ \A k \in 0..(i - 1) : At(current_permutation, k) = At(permutation, k)
           /\ pc = "scan"
                => /\ i <= j /\ j <= nr_of_axes - 1
                   /\ At(current_permutation, i) # At(permutation, i)
                   /\ \A k \in i..(j - 1) :
                        At(current_permutation, k) # At(permutation, i)
           /\ pc = "swap"
                => /\ found
                   /\ i < j /\ j <= nr_of_axes - 1
                   /\ At(current_permutation, j) = At(permutation, i)
           /\ pc = "done" => current_permutation = permutation

C10_Witness ==
    /\ pc = "swap"
    /\ permutation = PoolPerm
    /\ current_permutation = <<0, 2, 1, 3, 4>>
    /\ i = 2
    /\ j = 4
    /\ found
    /\ model = np_transpose(input, current_permutation)
    /\ model # input
====
